---- MODULE Spec2Model ----
(***************************************************************************)
(* temp_whatsapp_setup.py: two imports followed by eleven print            *)
(* statements.  The model runs the script twice on one machine (runs "a"   *)
(* and "b", each with its own command line and environment) so that the    *)
(* properties relating two runs can be stated next to the properties of a  *)
(* single run.                                                             *)
(*                                                                         *)
(* A stream is a sequence of text fragments; the line terminator is the    *)
(* fragment NL.  A string literal of the script that holds a newline is    *)
(* given as its fragments, e.g. "\n4. Copy these values:" is               *)
(* <<NL, "4. Copy these values:">>.                                        *)
(***************************************************************************)
EXTENDS Naturals, Sequences, FiniteSets

VARIABLES
    modules,    \* the modules the interpreter can resolve on this machine
    fs,         \* files written on this machine
    net,        \* HTTP requests issued from this machine
    argv,       \* argv[r]: command-line arguments of run r
    environ,    \* environ[r]: environment variables of run r
    pc,         \* pc[r]: index in Program of the next statement of run r
    state,      \* state[r]: "running" or "terminated"
    names,      \* names[r]: module names bound by the imports executed
    executed,   \* executed[r]: source lines of the statements begun, in order
    stdout,     \* stdout[r]: fragments written to standard output
    stderr,     \* stderr[r]: fragments written to standard error
    exc,        \* exc[r]: the uncaught exception that ended the run, or "none"
    exitCode    \* exitCode[r]: {} while running, {code} once terminated

vars == <<modules, fs, net, argv, environ, pc, state, names, executed,
          stdout, stderr, exc, exitCode>>

Runs == {"a", "b"}

NL == "\n"

\* The command lines and environments a run is started with.
ArgvChoices == {<<>>, <<"--token", "EAAG">>}
EnvChoices == {{}, {"WHATSAPP_ACCESS_TOKEN"}}

\* The modules named by the script's import statements.
Importable == {"requests", "json"}

Import(ln, m) == [line |-> ln, op |-> "import", name |-> m, text |-> <<>>]
Say(ln, t) == [line |-> ln, op |-> "print", name |-> "", text |-> t]

\* A plausible slip: import json moved below the first print.
ProgramLateImport ==
    << Import(1, "requests"),
       Say(5, <<"=== WhatsApp Business API Quick Setup ===">>),
       Import(2, "json"),
       Say(6, <<NL, "1. Go to: https://developers.facebook.com/apps">>),
       Say(7, <<"2. Click on your WhatsApp app">>),
       Say(8, <<"3. Go to: WhatsApp > API Setup">>),
       Say(9, <<NL, "4. Copy these values:">>),
       Say(10, <<"   - Temporary access token">>),
       Say(11, <<"   - Phone number ID (select your +60142779902)">>),
       Say(12, <<"   - Business Account ID">>),
       Say(13, <<NL, "5. Go to: Settings > Basic">>),
       Say(14, <<"   - Copy App Secret">>),
       Say(15, <<NL, "Paste your credentials here when ready!">>) >>

\* The statements of the script, in source order (lines 3 and 4 are a blank
\* line and a comment).
Program ==
    << Import(1, "requests"),
       Import(2, "json"),
       Say(5, <<"=== WhatsApp Business API Quick Setup ===">>),
       Say(6, <<NL, "1. Go to: https://developers.facebook.com/apps">>),
       Say(7, <<"2. Click on your WhatsApp app">>),
       Say(8, <<"3. Go to: WhatsApp > API Setup">>),
       Say(9, <<NL, "4. Copy these values:">>),
       Say(10, <<"   - Temporary access token">>),
       Say(11, <<"   - Phone number ID (select your +60142779902)">>),
       Say(12, <<"   - Business Account ID">>),
       Say(13, <<NL, "5. Go to: Settings > Basic">>),
       Say(14, <<"   - Copy App Secret">>),
       Say(15, <<NL, "Paste your credentials here when ready!">>) >>

AtEnd(r) == pc[r] = Len(Program) + 1
Stmt(r) == Program[pc[r]]

\* print(x) writes str(x) and then the line terminator.
Written(t) == t \o <<NL>>

\* What the interpreter writes to standard error for an uncaught exception.
Traceback(e) == <<"Traceback (most recent call last):", NL, e, NL>>

Init ==
    /\ modules \in SUBSET Importable
    /\ fs = {}
    /\ net = <<>>
    /\ argv \in [Runs -> ArgvChoices]
    /\ environ \in [Runs -> EnvChoices]
    /\ pc = [r \in Runs |-> 1]
    /\ state = [r \in Runs |-> "running"]
    /\ names = [r \in Runs |-> {}]
    /\ executed = [r \in Runs |-> <<>>]
    /\ stdout = [r \in Runs |-> <<>>]
    /\ stderr = [r \in Runs |-> <<>>]
    /\ exc = [r \in Runs |-> "none"]
    /\ exitCode = [r \in Runs |-> {}]

\* An exception nobody catches: traceback on standard error, the run ends
\* with the given status.
Raise(r, e, code) ==
    /\ stderr' = [stderr EXCEPT ![r] = @ \o Traceback(e)]
    /\ exc' = [exc EXCEPT ![r] = e]
    /\ state' = [state EXCEPT ![r] = "terminated"]
    /\ exitCode' = [exitCode EXCEPT ![r] = {code}]
    /\ pc' = pc

\* import m: binds the name when the module resolves, raises otherwise.
ImportStmt(r, m) ==
    /\ state[r] = "running"
    /\ ~AtEnd(r)
    /\ Stmt(r).op = "import"
    /\ Stmt(r).name = m
    /\ executed' = [executed EXCEPT ![r] = Append(@, Stmt(r).line)]
    /\ \/ /\ m \in modules
          /\ names' = [names EXCEPT ![r] = @ \cup {m}]
          /\ pc' = [pc EXCEPT ![r] = @ + 1]
          /\ UNCHANGED <<state, stderr, exc, exitCode>>
       \/ /\ m \notin modules
          /\ Raise(r, "ModuleNotFoundError", 1)
          /\ UNCHANGED names
    /\ UNCHANGED <<modules, fs, net, argv, environ, stdout>>

ImportRequests(r) == ImportStmt(r, "requests")

ImportJson(r) == ImportStmt(r, "json")

\* A plausible slip: the header line carries the time of the run.
PrintTimestamped(r) ==
    /\ state[r] = "running"
    /\ ~AtEnd(r)
    /\ Stmt(r).op = "print"
    /\ executed' = [executed EXCEPT ![r] = Append(@, Stmt(r).line)]
    /\ \E now \in {"02:14:40", "02:14:41"} :
          stdout' = [stdout EXCEPT
                       ![r] = @ \o Written(IF Stmt(r).line = 5
                                           THEN <<now>> \o Stmt(r).text
                                           ELSE Stmt(r).text)]
    /\ pc' = [pc EXCEPT ![r] = @ + 1]
    /\ UNCHANGED <<modules, fs, net, argv, environ, names, state, stderr,
                   exc, exitCode>>

\* A plausible slip: the script echoes the arguments it was given.
PrintEchoArgs(r) ==
    /\ state[r] = "running"
    /\ ~AtEnd(r)
    /\ Stmt(r).op = "print"
    /\ executed' = [executed EXCEPT ![r] = Append(@, Stmt(r).line)]
    /\ stdout' = [stdout EXCEPT ![r] = @ \o Written(Stmt(r).text \o argv[r])]
    /\ pc' = [pc EXCEPT ![r] = @ + 1]
    /\ UNCHANGED <<modules, fs, net, argv, environ, names, state, stderr,
                   exc, exitCode>>

\* A plausible slip: the imported HTTP library is used after all.
PrintAndFetch(r) ==
    /\ state[r] = "running"
    /\ ~AtEnd(r)
    /\ Stmt(r).op = "print"
    /\ executed' = [executed EXCEPT ![r] = Append(@, Stmt(r).line)]
    /\ stdout' = [stdout EXCEPT ![r] = @ \o Written(Stmt(r).text)]
    /\ net' = IF pc[r] = Len(Program)
              THEN Append(net, "GET https://graph.facebook.com")
              ELSE net
    /\ pc' = [pc EXCEPT ![r] = @ + 1]
    /\ UNCHANGED <<modules, fs, argv, environ, names, state, stderr,
                   exc, exitCode>>

\* A plausible slip: print called with end="", the line terminator lost.
PrintNoTerminator(r) ==
    /\ state[r] = "running"
    /\ ~AtEnd(r)
    /\ Stmt(r).op = "print"
    /\ executed' = [executed EXCEPT ![r] = Append(@, Stmt(r).line)]
    /\ stdout' = [stdout EXCEPT ![r] = @ \o Stmt(r).text]
    /\ pc' = [pc EXCEPT ![r] = @ + 1]
    /\ UNCHANGED <<modules, fs, net, argv, environ, names, state, stderr,
                   exc, exitCode>>

\* print(...): the fragments go to standard output in order; the stream may
\* fail after any number of them, which raises OSError.
PrintStmt(r) ==
    /\ state[r] = "running"
    /\ ~AtEnd(r)
    /\ Stmt(r).op = "print"
    /\ executed' = [executed EXCEPT ![r] = Append(@, Stmt(r).line)]
    /\ \/ /\ stdout' = [stdout EXCEPT ![r] = @ \o Written(Stmt(r).text)]
          /\ pc' = [pc EXCEPT ![r] = @ + 1]
          /\ UNCHANGED <<state, stderr, exc, exitCode>>
       \/ \E k \in 0 .. Len(Written(Stmt(r).text)) - 1 :
             /\ stdout' = [stdout EXCEPT
                             ![r] = @ \o SubSeq(Written(Stmt(r).text), 1, k)]
             /\ Raise(r, "OSError", 1)
    /\ UNCHANGED <<modules, fs, net, argv, environ, names>>

\* The end of the script: the interpreter exits with status 0.
Exit(r) ==
    /\ state[r] = "running"
    /\ AtEnd(r)
    /\ state' = [state EXCEPT ![r] = "terminated"]
    /\ exitCode' = [exitCode EXCEPT ![r] = {0}]
    /\ UNCHANGED <<modules, fs, net, argv, environ, pc, names, executed,
                   stdout, stderr, exc>>

\* SIGINT while the script runs: KeyboardInterrupt, uncaught.  The status is
\* 1, or that of a death by SIGINT (130), depending on the interpreter.
Interrupt(r) ==
    /\ state[r] = "running"
    /\ \E code \in {1, 130} : Raise(r, "KeyboardInterrupt", code)
    /\ UNCHANGED <<modules, fs, net, argv, environ, names, executed, stdout>>

Next ==
    \E r \in Runs :
        \/ ImportRequests(r)
        \/ ImportJson(r)
        \/ PrintStmt(r)
        \/ Exit(r)
        \/ Interrupt(r)

Spec == Init /\ [][Next]_vars

(***************************************************************************)
(* The reference text: the 15 lines of the documented output block.        *)
(***************************************************************************)
Block ==
    << "=== WhatsApp Business API Quick Setup ===",
       "",
       "1. Go to: https://developers.facebook.com/apps",
       "2. Click on your WhatsApp app",
       "3. Go to: WhatsApp > API Setup",
       "",
       "4. Copy these values:",
       "   - Temporary access token",
       "   - Phone number ID (select your +60142779902)",
       "   - Business Account ID",
       "",
       "5. Go to: Settings > Basic",
       "   - Copy App Secret",
       "",
       "Paste your credentials here when ready!" >>

\* The block as a stream: every line followed by its terminator.
RECURSIVE AsStream(_)
AsStream(ls) ==
    IF ls = <<>> THEN <<>>
    ELSE (IF Head(ls) = "" THEN <<>> ELSE <<Head(ls)>>) \o <<NL>>
         \o AsStream(Tail(ls))

BlockStream == AsStream(Block)

IsPrefix(s, t) == Len(s) <= Len(t) /\ s = SubSeq(t, 1, Len(s))

\* The source lines of the print statements, in source order.
PrintLines == 5 .. 15
IsPrintLine(ln) == ln \in PrintLines
AllPrintLines == [i \in 1 .. Cardinality(PrintLines) |-> i + 4]

\* Runs ended from outside the script (a signal, a failing stream) are the
\* ones the documentation puts out of scope.
Disturbed(r) == exc[r] \in {"KeyboardInterrupt", "OSError"}
Terminated(r) == state[r] = "terminated"
Complete(r) == Terminated(r) /\ ~Disturbed(r)

\* C1: a run with no arguments that has terminated (undisturbed) has written
\* exactly the 15-line block to standard output.
C1_ExactBlock ==
    \A r \in Runs :
        (Complete(r) /\ argv[r] = <<>>) => stdout[r] = BlockStream

\* C2: every (undisturbed) invocation ends with exit code 0, also when an
\* import cannot be resolved.
C2_ExitZero ==
    \A r \in Runs : Complete(r) => exitCode[r] = {0}

\* C3: standard error is empty in every reachable state of every
\* (undisturbed) execution.
C3_StderrEmpty ==
    \A r \in Runs : ~Disturbed(r) => stderr[r] = <<>>

\* C4: a terminated (undisturbed) run has executed every print statement
\* exactly once, in source order, none skipped.
C4_SinglePass ==
    \A r \in Runs :
        Complete(r) => SelectSeq(executed[r], IsPrintLine) = AllPrintLines

\* C5: two complete runs started with the same arguments and environment
\* have equal standard output and equal exit codes.
C5_Deterministic ==
    \A a, b \in Runs :
        (Complete(a) /\ Complete(b)
           /\ argv[a] = argv[b] /\ environ[a] = environ[b])
        => (stdout[a] = stdout[b] /\ exitCode[a] = exitCode[b])

C5_Witness ==
    /\ Complete("a") /\ Complete("b")
    /\ argv["a"] = argv["b"] /\ environ["a"] = environ["b"]
    /\ stdout["a"] = BlockStream
    /\ stdout["b"] = BlockStream

C8_Prefix ==
    /\ [](\A r \in Runs : IsPrefix(stdout[r], BlockStream))
    /\ [][\A r \in Runs : IsPrefix(stdout[r], stdout'[r])]_vars

C8_Witness ==
    \E r \in Runs :
        /\ Disturbed(r)
        /\ stdout[r] # <<>>
        /\ stdout[r] # BlockStream
        /\ stdout[r][Len(stdout[r])] # NL

\* C9: the imports come before the first print: a failed import ends the run
\* with nothing on standard output, and once anything has been printed no
\* import statement remains to be executed.
C9_ImportsFirst ==
    \A r \in Runs :
        /\ exc[r] = "ModuleNotFoundError"
             => (Terminated(r) /\ stdout[r] = <<>>)
        /\ stdout[r] # <<>>
             => \A i \in pc[r] .. Len(Program) : Program[i].op # "import"

C9_Witness ==
    \E r \in Runs :
        /\ exc[r] = "ModuleNotFoundError"
        /\ "requests" \in names[r]
        /\ Terminated(r)

====
